---- MODULE Spec2Model ----
(***************************************************************************)
(* Model of faust/transport/base.py: Consumer (deferred offset commit),    *)
(* the process-wide consumer id counter, and the periodic commit task.     *)
(*                                                                         *)
(* Time is discrete.  One tick is half a commit_interval, so that a state  *)
(* strictly inside an interval exists.  Timers that are due run before     *)
(* the next tick; the order of things due at the same tick is free.        *)
(***************************************************************************)
EXTENDS Integers, Sequences, FiniteSets, TLC

\* ---- bounds of the model ------------------------------------------------
MaxIds == 3          \* Spec: values the id counter may hand out
MaxConsumers == 2    \* Spec: Consumer objects that may exist
MaxCtorIds == 6      \* SpecIds: values the id counter may hand out
MaxCtorConsumers == 3 \* SpecIds: Consumer objects that may exist
MaxEvents == 3       \* track_event calls, over all consumers
MaxOffset == 1       \* offsets are drawn from 0..MaxOffset
MaxTasks == 1        \* register_timers calls, over all consumers
MaxCommits == 2      \* the call counter saturates here
MaxTimers == 2       \* SpecTimers: register_timers calls
MaxTimerEvents == 1  \* SpecTimers: track_event calls

\* ---- program constants --------------------------------------------------
\* Consumer.commit_interval = 30.0 seconds, in ticks of 15 seconds.
CommitInterval == 2

\* The age of a task is counted up to "more than one interval".
MaxAge == CommitInterval + 1

Offsets == 0..MaxOffset
NoOffset == -1

Callbacks == {"none", "callback"}
\* Topic descriptors: the `topic` argument is None, or has `topics` and
\* `pattern` each set or unset.
Topics == {"None", "topics", "pattern", "both", "neither"}

VARIABLES
    consumer_ids,  \* Consumer._consumer_ids: the next value of count(0)
    id,            \* id[c]: Consumer.id of the c-th constructed Consumer
    raised,        \* what the latest Consumer(...) call raised, or "ok"
    dirty,         \* dirty[c]: Consumer._dirty_events, a sequence of EventRef
    acked,         \* tags printed by on_event_ready ("ACKED MESSAGE")
    tasks,         \* tasks[c]: the _commit_handler tasks scheduled for c
    ncommits,      \* ncommits[c]: number of _commit calls made, saturating
    committed,     \* committed[c]: the offsets _commit was called with
    untimely,      \* untimely[c]: an event of c was tracked or reclaimed
                   \*   before c had a commit task, or when a task of c
                   \*   was at least one interval old
    stopped,       \* stopped[c]: the Consumer service was stopped
    sent           \* sent.send, sent.send_and_wait: what the latest call of
                   \*   that Producer method did ("none": not called yet)

vars == <<consumer_ids, id, raised, dirty, acked, tasks, ncommits,
          committed, untimely, stopped, sent>>

ctorVars == <<consumer_ids, id, raised>>

Live == 1..Len(id)

\* ---- pure helpers -------------------------------------------------------

Min(a, b) == IF a < b THEN a ELSE b

Last(s) == s[Len(s)]

\* MessageTag(consumer_id, offset)
MessageTag(cid, offset) == [consumer_id |-> cid, offset |-> offset]

\* EventRef(event, callback, tag): a weak reference; `alive` is whether the
\* referent still exists (ref() is not None).
EventRef(tag) == [tag |-> tag, alive |-> TRUE]

\* next(self._consumer_ids): the value handed out, and the counter after.
NextId(counter) == counter
\* A counter that is read without being advanced.
CounterStuck(counter) == counter
CounterAfter(counter) == counter + 1

\* Variants of _current_offsets with one line of it changed.
\* Without the test `if ref() is None`:
CurrentOffsetsUnchecked(refs) ==
    IF refs = <<>> THEN <<>> ELSE <<refs[1].tag.offset>>

\* Without the `break`: every ref whose event is gone yields its offset.
RECURSIVE CurrentOffsetsSweep(_)
CurrentOffsetsSweep(refs) ==
    IF refs = <<>> THEN <<>>
    ELSE (IF ~refs[1].alive THEN <<refs[1].tag.offset>> ELSE <<>>)
         \o CurrentOffsetsSweep(Tail(refs))

\* With the test inverted (`is not None`):
CurrentOffsetsInverted(refs) ==
    IF refs = <<>> THEN <<>>
    ELSE IF refs[1].alive THEN <<refs[1].tag.offset>>
    ELSE <<>>

\* Consumer._current_offsets: the generator's body runs for the first ref
\* only (the unconditional break), yielding its offset when ref() is None.
CurrentOffsets(refs) ==
    IF refs = <<>> THEN <<>>
    ELSE IF ~refs[1].alive THEN <<refs[1].tag.offset>>
    ELSE <<>>

\* A task of _commit_handler.
\*   pc: "ready"  scheduled by ensure_future, not yet run
\*       "commit" suspended in `await self._commit(offset)`
\*       "sleep"  suspended in `await asyncio.sleep(commit_interval)`
\*       "dead"   finished by an exception that left the coroutine
\*   timer:   ticks left to sleep;  offset: the argument of the _commit call
\*   age:     ticks since the task was scheduled (saturating, kept at death)
\*   scanned: the task has run the loop body at least once
NewTask == [pc |-> "ready", timer |-> 0, offset |-> NoOffset, age |-> 0,
            scanned |-> FALSE]

\* Line 74, `asyncio.sleep(self.commit_interval)` without await: a coroutine
\* object is created and dropped, the task does not suspend.  The number of
\* ticks the task waits before its first cycle:
InitialDelay == 0

\* One pass of the loop body up to its first suspension (lines 76-80).
CycleTask(task, refs) ==
    LET offsets == CurrentOffsets(refs) IN
    IF offsets # <<>>
    THEN [task EXCEPT !.pc = "commit", !.offset = Last(offsets), !.timer = 0,
                      !.scanned = TRUE]
    ELSE [task EXCEPT !.pc = "sleep", !.offset = NoOffset,
                      !.timer = CommitInterval, !.scanned = TRUE]

\* ---- the methods a backend is to override ---------------------------------

\* A method that returns normally.
Returns == "ok"

\* Consumer._commit, Producer.send and Producer.send_and_wait as the base
\* classes define them: what a call does.
ConsumerCommit == "NotImplementedError"
ProducerSend == "NotImplementedError"
ProducerSendAndWait == "NotImplementedError"

NotSent == [send |-> "none", send_and_wait |-> "none"]

\* ---- initial state ------------------------------------------------------

Init ==
    /\ consumer_ids = 0
    /\ id = <<>>
    /\ raised = "none"
    /\ dirty = <<>>
    /\ acked = {}
    /\ tasks = <<>>
    /\ ncommits = <<>>
    /\ committed = <<>>
    /\ untimely = <<>>
    /\ stopped = <<>>
    /\ sent = NotSent

\* ---- Consumer.__init__ / Transport.create_consumer -----------------------

\* __init__ without the test of line 51.
InitOutcomeUnchecked(topic) ==
    IF topic = "None" THEN "AttributeError" ELSE "ok"

\* The outcome of Consumer.__init__ after the id was taken (lines 48-54).
InitOutcome(topic) ==
    IF topic = "None" THEN "AttributeError"
    ELSE IF topic = "both" THEN "TypeError"
    ELSE "ok"

CreateConsumer(callback, topic) ==
    IF callback = "none"
    THEN \* assert callback is not None
         /\ raised' = "AssertionError"
         /\ UNCHANGED <<consumer_ids, id, dirty, acked, tasks, ncommits,
                        committed, untimely, stopped, sent>>
    ELSE /\ consumer_ids' = CounterAfter(consumer_ids)
         /\ raised' = InitOutcome(topic)
         /\ IF InitOutcome(topic) = "ok"
            THEN /\ id' = Append(id, NextId(consumer_ids))
                 /\ dirty' = Append(dirty, <<>>)
                 /\ tasks' = Append(tasks, <<>>)
                 /\ ncommits' = Append(ncommits, 0)
                 /\ committed' = Append(committed, {})
                 /\ untimely' = Append(untimely, FALSE)
                 /\ stopped' = Append(stopped, FALSE)
            ELSE UNCHANGED <<id, dirty, tasks, ncommits, committed,
                             untimely, stopped>>
         /\ UNCHANGED <<acked, sent>>

\* ---- tracking and reclamation --------------------------------------------

Tracked == LET RECURSIVE Sum(_)
               Sum(c) == IF c = 0 THEN 0 ELSE Len(dirty[c]) + Sum(c - 1)
           IN Sum(Len(dirty))

Scheduled == LET RECURSIVE Sum(_)
                 Sum(c) == IF c = 0 THEN 0 ELSE Len(tasks[c]) + Sum(c - 1)
             IN Sum(Len(tasks))

IsUntimely(c) ==
    \/ tasks[c] = <<>>
    \/ \E t \in 1..Len(tasks[c]) : tasks[c][t].age >= CommitInterval

\* track_event on a list that is one object for all Consumers (a list made
\* once in the class body instead of line 53's list per instance).
TrackEventShared(c, offset) ==
    /\ dirty' = [d \in DOMAIN dirty |->
                   Append(dirty[d], EventRef(MessageTag(id[c], offset)))]
    /\ untimely' = [untimely EXCEPT ![c] = @ \/ IsUntimely(c)]
    /\ UNCHANGED <<ctorVars, sent, acked, tasks, ncommits, committed, stopped>>

\* Consumer.track_event(event, offset)
TrackEvent(c, offset) ==
    /\ dirty' = [dirty EXCEPT
                   ![c] = Append(@, EventRef(MessageTag(id[c], offset)))]
    /\ untimely' = [untimely EXCEPT ![c] = @ \/ IsUntimely(c)]
    /\ UNCHANGED <<ctorVars, sent, acked, tasks, ncommits, committed, stopped>>

\* A reclamation whose callback commits the offset of the tag itself.
ReclaimCommitting(c, i) ==
    /\ dirty[c][i].alive
    /\ dirty' = [dirty EXCEPT ![c][i].alive = FALSE]
    /\ acked' = acked \cup {dirty[c][i].tag}
    /\ untimely' = [untimely EXCEPT ![c] = @ \/ IsUntimely(c)]
    /\ ncommits' = [ncommits EXCEPT ![c] = Min(@ + 1, MaxCommits)]
    /\ committed' = [committed EXCEPT ![c] = @ \cup {dirty[c][i].tag.offset}]
    /\ UNCHANGED <<ctorVars, sent, tasks, stopped>>

\* The event behind dirty[c][i] is reclaimed: the weak reference is cleared
\* and its callback, Consumer.on_event_ready(ref), runs.
Reclaim(c, i) ==
    /\ dirty[c][i].alive
    /\ dirty' = [dirty EXCEPT ![c][i].alive = FALSE]
    /\ acked' = acked \cup {dirty[c][i].tag}
    /\ untimely' = [untimely EXCEPT ![c] = @ \/ IsUntimely(c)]
    /\ UNCHANGED <<ctorVars, sent, tasks, ncommits, committed, stopped>>

\* ---- the periodic commit task --------------------------------------------

\* register_timers that schedules a task only when the Consumer has none.
RegisterTimersOnce(c) ==
    /\ tasks[c] = <<>>
    /\ tasks' = [tasks EXCEPT ![c] = Append(@, NewTask)]
    /\ UNCHANGED <<ctorVars, sent, dirty, acked, ncommits, committed, untimely,
                   stopped>>

\* Consumer.register_timers: ensure_future(self._commit_handler()); the
\* returned future is not kept.
RegisterTimers(c) ==
    /\ tasks' = [tasks EXCEPT ![c] = Append(@, NewTask)]
    /\ UNCHANGED <<ctorVars, sent, dirty, acked, ncommits, committed, untimely,
                   stopped>>

\* A loop pass that drops the entry whose offset it commits.
RunCyclePruning(c, t) ==
    LET task == CycleTask(tasks[c][t], dirty[c]) IN
    /\ tasks' = [tasks EXCEPT ![c][t] = task]
    /\ IF task.pc = "commit"
       THEN /\ ncommits' = [ncommits EXCEPT ![c] = Min(@ + 1, MaxCommits)]
            /\ committed' = [committed EXCEPT ![c] = @ \cup {task.offset}]
            /\ dirty' = [dirty EXCEPT ![c] = Tail(@)]
       ELSE UNCHANGED <<ncommits, committed, dirty>>
    /\ UNCHANGED <<ctorVars, sent, acked, untimely, stopped>>

\* The effect of one loop pass of task t of consumer c on the state.
RunCycle(c, t) ==
    LET task == CycleTask(tasks[c][t], dirty[c]) IN
    /\ tasks' = [tasks EXCEPT ![c][t] = task]
    /\ IF task.pc = "commit"
       THEN /\ ncommits' = [ncommits EXCEPT ![c] = Min(@ + 1, MaxCommits)]
            /\ committed' = [committed EXCEPT ![c] = @ \cup {task.offset}]
       ELSE UNCHANGED <<ncommits, committed>>
    /\ UNCHANGED <<ctorVars, sent, dirty, acked, untimely, stopped>>

\* The event loop runs the task for the first time (lines 74-80).
TaskStart(c, t) ==
    /\ tasks[c][t].pc = "ready"
    /\ IF InitialDelay = 0
       THEN RunCycle(c, t)
       ELSE /\ tasks' = [tasks EXCEPT ![c][t].pc = "sleep",
                                      ![c][t].timer = InitialDelay]
            /\ UNCHANGED <<ctorVars, sent, dirty, acked, ncommits, committed,
                           untimely, stopped>>

\* `await self._commit(offset)` returns; the task goes on to line 80.
CommitReturn(c, t) ==
    /\ tasks[c][t].pc = "commit"
    /\ tasks' = [tasks EXCEPT ![c][t].pc = "sleep",
                              ![c][t].offset = NoOffset,
                              ![c][t].timer = CommitInterval]
    /\ UNCHANGED <<ctorVars, sent, dirty, acked, ncommits, committed, untimely,
                   stopped>>

\* What an exception raised by `await self._commit(offset)` does to the
\* task: nothing in _commit_handler catches it.
AfterCommitError(task) ==
    [task EXCEPT !.pc = "dead", !.offset = NoOffset, !.timer = 0]

CommitRaise(c, t) ==
    /\ tasks[c][t].pc = "commit"
    /\ tasks' = [tasks EXCEPT ![c][t] = AfterCommitError(@)]
    /\ UNCHANGED <<ctorVars, sent, dirty, acked, ncommits, committed, untimely,
                   stopped>>

\* `await self._commit(offset)` on a Consumer whose class does not override
\* _commit.
CommitBase(c, t) ==
    IF ConsumerCommit = "ok" THEN CommitReturn(c, t) ELSE CommitRaise(c, t)

\* `await asyncio.sleep(commit_interval)` is over: the next loop pass.
Wake(c, t) ==
    /\ tasks[c][t].pc = "sleep"
    /\ tasks[c][t].timer = 0
    /\ RunCycle(c, t)

\* ---- time ---------------------------------------------------------------

Due(task) == \/ task.pc = "ready"
             \/ task.pc = "sleep" /\ task.timer = 0

TickTask(task) ==
    [task EXCEPT !.age = IF task.pc = "dead" THEN @ ELSE Min(@ + 1, MaxAge),
                 !.timer = IF task.pc = "sleep" THEN @ - 1 ELSE @]

Tick ==
    /\ Scheduled > 0
    /\ \A c \in Live : \A t \in 1..Len(tasks[c]) : ~Due(tasks[c][t])
    /\ tasks' = [c \in DOMAIN tasks |->
                   [t \in DOMAIN tasks[c] |-> TickTask(tasks[c][t])]]
    /\ UNCHANGED <<ctorVars, sent, dirty, acked, ncommits, committed, untimely,
                   stopped>>

\* ---- stopping -------------------------------------------------------------

\* What stopping the Consumer does to one of its commit tasks.  Consumer
\* keeps no handle of the task (line 71), defines no stop hook, and the loop
\* of _commit_handler tests no stop flag (line 75).
StopTask(task) == task

Stop(c) ==
    /\ ~stopped[c]
    /\ stopped' = [stopped EXCEPT ![c] = TRUE]
    /\ tasks' = [tasks EXCEPT
                   ![c] = [t \in DOMAIN tasks[c] |-> StopTask(tasks[c][t])]]
    /\ UNCHANGED <<ctorVars, sent, dirty, acked, ncommits, committed, untimely>>

\* ---- Producer ------------------------------------------------------------------

\* await producer.send(topic, key, value) on a Producer whose class does not
\* override send.
Send ==
    /\ sent' = [sent EXCEPT !.send = ProducerSend]
    /\ UNCHANGED <<ctorVars, dirty, acked, tasks, ncommits, committed,
                   untimely, stopped>>

\* await producer.send_and_wait(topic, key, value), likewise.
SendAndWait ==
    /\ sent' = [sent EXCEPT !.send_and_wait = ProducerSendAndWait]
    /\ UNCHANGED <<ctorVars, dirty, acked, tasks, ncommits, committed,
                   untimely, stopped>>

\* ---- specification --------------------------------------------------------

Next ==
    \/ \E cb \in Callbacks, topic \in Topics :
          /\ consumer_ids < MaxIds
          /\ Len(id) < MaxConsumers
          /\ CreateConsumer(cb, topic)
    \/ \E c \in Live, o \in Offsets : Tracked < MaxEvents /\ TrackEvent(c, o)
    \/ \E c \in Live : \E i \in 1..Len(dirty[c]) : Reclaim(c, i)
    \/ \E c \in Live : Scheduled < MaxTasks /\ RegisterTimers(c)
    \/ \E c \in Live : \E t \in 1..Len(tasks[c]) : TaskStart(c, t)
    \/ \E c \in Live : \E t \in 1..Len(tasks[c]) : CommitReturn(c, t)
    \/ \E c \in Live : \E t \in 1..Len(tasks[c]) : CommitRaise(c, t)
    \/ \E c \in Live : \E t \in 1..Len(tasks[c]) : Wake(c, t)
    \/ Tick
    \/ \E c \in Live : Stop(c)

Spec == Init /\ [][Next]_vars

\* One Consumer, from its construction on: the state after the first
\* Consumer(transport, topic=..., callback=...) call has returned.
InitConsumer ==
    /\ consumer_ids = 1
    /\ id = <<0>>
    /\ raised = "ok"
    /\ dirty = << <<>> >>
    /\ acked = {}
    /\ tasks = << <<>> >>
    /\ ncommits = <<0>>
    /\ committed = <<{}>>
    /\ untimely = <<FALSE>>
    /\ stopped = <<FALSE>>
    /\ sent = NotSent

NextConsumer ==
    \/ \E c \in Live, o \in Offsets : Tracked < MaxEvents /\ TrackEvent(c, o)
    \/ \E c \in Live : \E i \in 1..Len(dirty[c]) : Reclaim(c, i)
    \/ \E c \in Live : Scheduled < MaxTasks /\ RegisterTimers(c)
    \/ \E c \in Live : \E t \in 1..Len(tasks[c]) : TaskStart(c, t)
    \/ \E c \in Live : \E t \in 1..Len(tasks[c]) : CommitReturn(c, t)
    \/ \E c \in Live : \E t \in 1..Len(tasks[c]) : CommitRaise(c, t)
    \/ \E c \in Live : \E t \in 1..Len(tasks[c]) : Wake(c, t)
    \/ Tick
    \/ \E c \in Live : Stop(c)

SpecConsumer == InitConsumer /\ [][NextConsumer]_vars

\* One Consumer and one Producer of the base classes, with no backend
\* overriding _commit, send or send_and_wait.
NextBase ==
    \/ \E c \in Live, o \in Offsets : Tracked < MaxEvents /\ TrackEvent(c, o)
    \/ \E c \in Live : \E i \in 1..Len(dirty[c]) : Reclaim(c, i)
    \/ \E c \in Live : Scheduled < MaxTasks /\ RegisterTimers(c)
    \/ \E c \in Live : \E t \in 1..Len(tasks[c]) : TaskStart(c, t)
    \/ \E c \in Live : \E t \in 1..Len(tasks[c]) : CommitBase(c, t)
    \/ \E c \in Live : \E t \in 1..Len(tasks[c]) : Wake(c, t)
    \/ Tick
    \/ Send
    \/ SendAndWait

SpecBase == InitConsumer /\ [][NextBase]_vars

\* One Consumer on which register_timers is called repeatedly.
NextTimers ==
    \/ \E c \in Live, o \in Offsets :
          Tracked < MaxTimerEvents /\ TrackEvent(c, o)
    \/ \E c \in Live : \E i \in 1..Len(dirty[c]) : Reclaim(c, i)
    \/ \E c \in Live : Scheduled < MaxTimers /\ RegisterTimers(c)
    \/ \E c \in Live : \E t \in 1..Len(tasks[c]) : TaskStart(c, t)
    \/ \E c \in Live : \E t \in 1..Len(tasks[c]) : CommitReturn(c, t)
    \/ \E c \in Live : \E t \in 1..Len(tasks[c]) : CommitRaise(c, t)
    \/ \E c \in Live : \E t \in 1..Len(tasks[c]) : Wake(c, t)
    \/ Tick

SpecTimers == InitConsumer /\ [][NextTimers]_vars

\* Constructions alone, successful and failing, in any order.
NextIds ==
    \E cb \in Callbacks, topic \in Topics :
        /\ consumer_ids < MaxCtorIds
        /\ Len(id) < MaxCtorConsumers
        /\ CreateConsumer(cb, topic)

SpecIds == Init /\ [][NextIds]_vars

\* The event loop runs every task that is ready or due, time passes, and a
\* backend call that was started completes (returns or raises).
FairnessConsumer ==
    /\ WF_vars(Tick)
    /\ \A c \in 1..MaxConsumers : \A t \in 1..MaxTasks :
          /\ WF_vars(c \in Live /\ t <= Len(tasks[c]) /\ TaskStart(c, t))
          /\ WF_vars(c \in Live /\ t <= Len(tasks[c]) /\ Wake(c, t))
          /\ WF_vars(c \in Live /\ t <= Len(tasks[c])
                       /\ (CommitReturn(c, t) \/ CommitRaise(c, t)))

FairSpecConsumer == SpecConsumer /\ FairnessConsumer

\* ---- properties ------------------------------------------------------------

Range(s) == {s[i] : i \in DOMAIN s}

Reclaimed(c, i) == ~dirty[c][i].alive
OffsetOf(c, i) == dirty[c][i].tag.offset

\* The result of an offset-safety scan of consumer c in the current state.
Scan(c) == CurrentOffsets(dirty[c])

\* The offsets consumer c has passed to _commit or would pass to it from a
\* scan made now.
Yielded(c) == committed[c] \cup Range(Scan(c))

\* C1: the offset-safety scan never yields, and the periodic task never
\* passes to _commit, an offset whose tracked event has not been reclaimed:
\* every such offset is the tag of a tracked event that is gone.
C1_ScanYieldsOnlyReclaimed ==
    \A c \in Live : \A o \in Yielded(c) :
        \E i \in 1..Len(dirty[c]) : OffsetOf(c, i) = o /\ Reclaimed(c, i)

\* A commit call was made while a tracked event of the consumer was alive.
C1_Witness ==
    \E c \in Live :
        /\ committed[c] # {}
        /\ \E i \in 1..Len(dirty[c]) : ~Reclaimed(c, i)

\* C2: every offset passed to _commit is the tag of an event that is gone
\* together with every event tracked before it, whatever the order of the
\* reclamations was.
C2_NoCommitPastLiveEvent ==
    \A c \in Live : \A o \in committed[c] :
        \E i \in 1..Len(dirty[c]) :
            /\ OffsetOf(c, i) = o
            /\ \A j \in 1..i : Reclaimed(c, j)

\* A commit call was made, and events were reclaimed out of tracking order:
\* the third is gone while the second is alive.
C2_Witness ==
    \E c \in Live :
        /\ committed[c] # {}
        /\ Len(dirty[c]) >= 3
        /\ ~Reclaimed(c, 2)
        /\ Reclaimed(c, 3)

\* A step in which task t of consumer c runs the loop body of
\* _commit_handler (lines 76-80).
LoopPass(c, t) == \/ InitialDelay = 0 /\ TaskStart(c, t)
                  \/ Wake(c, t)

Increasing(c) ==
    \A i \in 1..(Len(dirty[c]) - 1) : OffsetOf(c, i) < OffsetOf(c, i + 1)

OnlyFirstReclaimed(c) ==
    /\ Len(dirty[c]) >= 1
    /\ Reclaimed(c, 1)
    /\ \A i \in 2..Len(dirty[c]) : ~Reclaimed(c, i)

C3_Never ==
    \A c \in Live :
        Increasing(c) /\ OnlyFirstReclaimed(c)
            => committed[c] \subseteq {OffsetOf(c, 1)}

C3_Calls ==
    \A c \in Live :
        Increasing(c) /\ OnlyFirstReclaimed(c)
            => \A t \in 1..Len(tasks[c]) :
                   LoopPass(c, t)
                       => /\ tasks'[c][t].pc = "commit"
                          /\ tasks'[c][t].offset = OffsetOf(c, 1)
                          /\ OffsetOf(c, 1) \in committed'[c]

\* C3: with offsets o1 < ... < on tracked in that order and only the event
\* tagged o1 reclaimed, every loop pass of the periodic task calls
\* _commit(o1), and _commit has not been called with any of o2..on.
C3_CommitsFirstOnly == []C3_Never /\ [][C3_Calls]_vars

\* Two or more increasing offsets, only the first reclaimed, and o1 committed.
C3_Witness ==
    \E c \in Live :
        /\ Len(dirty[c]) >= 2
        /\ Increasing(c)
        /\ OnlyFirstReclaimed(c)
        /\ committed[c] = {OffsetOf(c, 1)}

\* The task of c has finished the loop pass that was due now: it sleeps a
\* whole interval again.
PassDone(task) == task.pc = "sleep" /\ task.timer = CommitInterval

\* C4: register_timers() was called once, three events were tracked and only
\* the first reclaimed after that and before the interval was over, and exactly one
\* commit_interval has elapsed since: exactly one _commit call was made, with
\* the first tracked offset.
C4_ExactlyOneCommit ==
    \A c \in Live :
        ( /\ Len(tasks[c]) = 1
          /\ tasks[c][1].age = CommitInterval
          /\ PassDone(tasks[c][1])
          /\ ~untimely[c]
          /\ Len(dirty[c]) = 3
          /\ OnlyFirstReclaimed(c) )
        => /\ ncommits[c] = 1
           /\ committed[c] = {OffsetOf(c, 1)}

UniqueOffset(c, i) ==
    \A j \in 1..Len(dirty[c]) : j # i => OffsetOf(c, j) # OffsetOf(c, i)

\* C5 as stated: for an event at any position, tagged with an offset no
\* other tracked event has, the scan yields the offset exactly when the event
\* has been reclaimed.
C5_AnyPositionScanned ==
    \A c \in Live : \A i \in 1..Len(dirty[c]) :
        UniqueOffset(c, i)
            => (Reclaimed(c, i) <=> OffsetOf(c, i) \in Range(Scan(c)))

\* C5 amended: the scan speaks for the head of dirty_events alone.  While
\* the head's event is alive (or nothing is tracked) every scan is empty and
\* nothing has been committed; once it is reclaimed every scan yields
\* exactly the head's offset, whatever happened to later entries.
C5_HeadScanned ==
    \A c \in Live :
        IF dirty[c] # <<>> /\ Reclaimed(c, 1)
        THEN /\ Scan(c) = <<OffsetOf(c, 1)>>
             /\ committed[c] \subseteq {OffsetOf(c, 1)}
        ELSE /\ Scan(c) = <<>>
             /\ committed[c] = {}

\* The head was reclaimed and scanned into a commit, and a later entry with
\* another offset was reclaimed too.
C5_Witness ==
    \E c \in Live :
        /\ Len(dirty[c]) >= 2
        /\ Reclaimed(c, 1)
        /\ Scan(c) = <<OffsetOf(c, 1)>>
        /\ OffsetOf(c, 1) \in committed[c]
        /\ \E i \in 2..Len(dirty[c]) :
               Reclaimed(c, i) /\ OffsetOf(c, i) # OffsetOf(c, 1)

AllDead(c) == \A t \in 1..Len(tasks[c]) : tasks[c][t].pc = "dead"

\* C6: once the events of the first k tracked entries are all reclaimed and
\* a commit task was registered, _commit is eventually called with the
\* offset of the k-th entry, as long as the task has not terminated.
C6_CommitProgress ==
    \A c \in 1..MaxConsumers : \A k \in 1..MaxEvents :
        ( /\ c \in Live
          /\ Len(dirty[c]) >= k
          /\ \A j \in 1..k : Reclaimed(c, j)
          /\ Len(tasks[c]) > 0 )
        ~> ( /\ c \in Live
             /\ Len(dirty[c]) >= k
             /\ (OffsetOf(c, k) \in committed[c] \/ AllDead(c)) )

\* C7: a task that has made its first offset-safety scan was scheduled at
\* least one commit_interval before.
C7_FirstScanAfterInterval ==
    \A c \in Live : \A t \in 1..Len(tasks[c]) :
        tasks[c][t].scanned => tasks[c][t].age >= CommitInterval

\* C8: no commit task terminates; in particular a _commit call that raises
\* leaves its task alive.
C8_TaskSurvivesCommitFailure ==
    \A c \in Live : \A t \in 1..Len(tasks[c]) : tasks[c][t].pc # "dead"

\* C9: once a consumer is stopped, none of its tasks starts a _commit call.
C9_NoCommitAfterStop ==
    [][\A c \in Live :
          stopped[c]
              => \A t \in 1..Len(tasks[c]) :
                     ~(tasks[c][t].pc # "commit" /\ tasks'[c][t].pc = "commit")
      ]_vars

\* C10: the ids of the constructed consumers are strictly increasing in
\* construction order (hence pairwise distinct), and each was handed out by
\* the counter before its current value.
C10_IdsStrictlyIncreasing ==
    /\ \A i, j \in 1..Len(id) : i < j => id[i] < id[j]
    /\ \A i \in 1..Len(id) : id[i] < consumer_ids

\* Two consumers exist and a failed construction between them took an id.
C10_Witness ==
    /\ Len(id) >= 2
    /\ id[2] > id[1] + 1

\* ---- construction ----------------------------------------------------------

\* A step that is the call Consumer(transport, topic=topic, callback=cb).
C11_Step(topic) ==
    CreateConsumer("callback", topic)
        => IF topic \in {"topics", "pattern"}
           THEN /\ raised' = "ok"
                /\ Len(id') = Len(id) + 1
                /\ dirty'[Len(id')] = <<>>
                /\ tasks'[Len(id')] = <<>>
           ELSE topic = "both"
                    => /\ raised' = "TypeError"
                       /\ UNCHANGED <<id, dirty, tasks, ncommits, committed,
                                      stopped>>

\* C11: with a callback given, construction succeeds for a topic descriptor
\* with only topics or only pattern set, giving a Consumer with an empty
\* dirty_events list and no commit task; with both set it raises the error
\* of line 52 to the caller and no Consumer, list or task comes to exist.
C11_TopicDescriptorChecked == [][\A topic \in Topics : C11_Step(topic)]_vars

\* A construction has just failed on the topic descriptor, after an earlier
\* one had succeeded.
C11_Witness ==
    /\ raised = "TypeError"
    /\ Len(id) >= 1

\* C12: every call of create_consumer, returning or failing, advances the
\* id counter by exactly one.
C12_OneIdPerCall ==
    [][\A cb \in Callbacks, topic \in Topics :
          CreateConsumer(cb, topic) => consumer_ids' = consumer_ids + 1]_vars

\* ---- two consumers ----------------------------------------------------------

\* A step that is an operation on consumer c: track_event, the reclamation
\* of one of its events, or a step of one of its commit tasks.
OperationOf(c) ==
    \/ \E o \in Offsets : TrackEvent(c, o)
    \/ \E i \in 1..Len(dirty[c]) : Reclaim(c, i)
    \/ \E t \in 1..Len(tasks[c]) :
          \/ TaskStart(c, t)
          \/ Wake(c, t)
          \/ CommitReturn(c, t)
          \/ CommitRaise(c, t)

C13_Distinct ==
    \A c \in Live, d \in Live :
        c # d => /\ id[c] # id[d]
                 /\ \A i \in 1..Len(dirty[c]) :
                       dirty[c][i].tag.consumer_id # id[d]

C13_Frame ==
    \A c \in Live, d \in Live :
        (c # d /\ OperationOf(c))
            => /\ dirty'[d] = dirty[d]
               /\ committed'[d] = committed[d]
               /\ ncommits'[d] = ncommits[d]

\* C13: two Consumers of one process have different ids and separate
\* dirty_events lists; track_event, reclamations and commit cycles of one
\* leave the other's list and the offsets committed for it unchanged.
C13_ConsumersIsolated == []C13_Distinct /\ [][C13_Frame]_vars

\* One consumer has tracked, lost and committed an event while the other
\* holds tracked events, its first one gone, and nothing committed.
C13_Witness ==
    \E c \in Live, d \in Live :
        /\ c # d
        /\ committed[c] # {}
        /\ dirty[d] # <<>>
        /\ Scan(d) # <<>>
        /\ committed[d] = {}

\* ---- the sequence of commit calls -------------------------------------------

C14_Step ==
    \A c \in Live : \A t \in 1..Len(tasks[c]) :
        (LoopPass(c, t) /\ tasks'[c][t].pc = "commit")
            => \A o \in committed[c] : o <= tasks'[c][t].offset

\* C14: the offsets a consumer's commit task passes to _commit never
\* decrease: each call carries an offset at least as large as that of every
\* earlier call.
C14_CommitsNonDecreasing == [][C14_Step]_vars

\* A second commit call is in progress, while a later entry with a smaller
\* offset than the first one has been reclaimed too.
C14_Witness ==
    \E c \in Live :
        /\ ncommits[c] >= 2
        /\ \E t \in 1..Len(tasks[c]) : tasks[c][t].pc = "commit"
        /\ Len(dirty[c]) >= 2
        /\ Reclaimed(c, 2)
        /\ OffsetOf(c, 2) < OffsetOf(c, 1)

\* ---- the dirty_events list ---------------------------------------------------

\* The tags of consumer c's dirty_events, in list order.
Tags(c) == [i \in 1..Len(dirty[c]) |-> dirty[c][i].tag]

C15_Own ==
    \A c \in Live : \A i \in 1..Len(dirty[c]) :
        dirty[c][i].tag.consumer_id = id[c]

C15_Step ==
    \A c \in Live :
        /\ \A o \in Offsets :
              TrackEvent(c, o) =>
                  [i \in 1..Len(dirty'[c]) |-> dirty'[c][i].tag]
                      = Append(Tags(c), MessageTag(id[c], o))
        /\ (~ \E o \in Offsets : TrackEvent(c, o)) =>
              [i \in 1..Len(dirty'[c]) |-> dirty'[c][i].tag] = Tags(c)

\* C15: the tags of dirty_events are the (consumer id, offset) pairs of the
\* track_event calls made so far, in call order: the list starts empty, a
\* track_event call appends its tag at the tail, and no other step removes,
\* reorders or adds an entry, so the length is the number of calls.
C15_DirtyEventsIsCallHistory == []C15_Own /\ [][C15_Step]_vars

\* The first event was reclaimed and its offset committed twice, and the
\* list still holds it in front of a later entry.
C15_Witness ==
    \E c \in Live :
        /\ Len(dirty[c]) >= 2
        /\ Reclaimed(c, 1)
        /\ ncommits[c] >= 2

\* A commit call starts in this step.
CommitCalled ==
    \E c \in Live : \E t \in 1..Len(tasks[c]) :
        /\ tasks[c][t].pc # "commit"
        /\ tasks'[c][t].pc = "commit"

C16_Step ==
    /\ \A c \in Live : \A i \in 1..Len(dirty[c]) :
          Reclaim(c, i) =>
              /\ acked' = acked \cup {dirty[c][i].tag}
              /\ [j \in 1..Len(dirty'[c]) |-> dirty'[c][j].tag] = Tags(c)
              /\ UNCHANGED <<tasks, ncommits, committed>>
    /\ \A c \in Live : \A o \in Offsets :
          TrackEvent(c, o) => UNCHANGED <<tasks, ncommits, committed>>
    /\ (CommitCalled \/ ncommits' # ncommits \/ committed' # committed)
          => \E c \in Live : \E t \in 1..Len(tasks[c]) : LoopPass(c, t)

\* C16: the reclamation callback on_event_ready only emits the ack with the
\* tag of its reference: the entries of dirty_events stay as they are and
\* no _commit call is made; nor does track_event make one.  Every _commit
\* call is made by a loop pass of the periodic task.
C16_AckOnlyAcknowledges == [][C16_Step]_vars

\* An event was acknowledged while a commit task had already scanned, and
\* no commit call has been made.
C16_Witness ==
    \E c \in Live :
        /\ \E i \in 1..Len(dirty[c]) : dirty[c][i].tag \in acked
        /\ \E t \in 1..Len(tasks[c]) : tasks[c][t].scanned
        /\ ncommits[c] = 0

\* ---- what one loop pass commits -----------------------------------------------

HeadReclaimed(c) == dirty[c] # <<>> /\ Reclaimed(c, 1)

C17_Scan ==
    \A c \in Live :
        Scan(c) = IF HeadReclaimed(c) THEN <<OffsetOf(c, 1)>> ELSE <<>>

C17_Step ==
    \A c \in Live : \A t \in 1..Len(tasks[c]) :
        LoopPass(c, t) =>
            /\ IF HeadReclaimed(c)
               THEN /\ tasks'[c][t].pc = "commit"
                    /\ tasks'[c][t].offset = OffsetOf(c, 1)
                    /\ ncommits'[c] = Min(ncommits[c] + 1, MaxCommits)
                    /\ committed'[c] = committed[c] \cup {OffsetOf(c, 1)}
               ELSE /\ tasks'[c][t].pc = "sleep"
                    /\ UNCHANGED <<ncommits, committed>>
            /\ \A u \in 1..Len(tasks[c]) : u # t => tasks'[c][u] = tasks[c][u]

\* C17: a loop pass looks at the oldest entry of dirty_events only.  The scan
\* yields at most one offset, the head's, exactly when the head's event is
\* gone; the pass makes one _commit call with it in that case and none when
\* the list is empty or the head's event is alive, whatever happened to the
\* later entries.
C17_WakeExaminesHeadOnly == []C17_Scan /\ [][C17_Step]_vars

\* A task has passed the loop and sleeps with no commit call made, while the
\* head's event is alive and a later one is gone.
C17_Witness ==
    \E c \in Live :
        /\ dirty[c] # <<>>
        /\ ~Reclaimed(c, 1)
        /\ \E i \in 2..Len(dirty[c]) : Reclaimed(c, i)
        /\ \E t \in 1..Len(tasks[c]) :
              tasks[c][t].scanned /\ tasks[c][t].pc = "sleep"
        /\ ncommits[c] = 0

C19_Never ==
    \A c \in Live :
        committed[c] \subseteq
            (IF dirty[c] = <<>> THEN {} ELSE {OffsetOf(c, 1)})

C19_Step ==
    \A c \in Live : \A t \in 1..Len(tasks[c]) :
        (LoopPass(c, t) /\ committed[c] # {})
            => /\ tasks'[c][t].pc = "commit"
               /\ tasks'[c][t].offset \in committed[c]
               /\ committed'[c] = committed[c]

\* C19: every _commit call of a consumer carries the offset of the first
\* event it tracked; once that offset has been committed, every later loop
\* pass commits it again, and the set of committed offsets never grows
\* beyond it.
C19_CommitNeverAdvances == []C19_Never /\ [][C19_Step]_vars

\* Two events with increasing offsets are both gone, and two commit calls
\* were made, both with the first offset.
C19_Witness ==
    \E c \in Live :
        /\ Len(dirty[c]) >= 2
        /\ OffsetOf(c, 1) < OffsetOf(c, 2)
        /\ Reclaimed(c, 1) /\ Reclaimed(c, 2)
        /\ ncommits[c] >= 2
        /\ committed[c] = {OffsetOf(c, 1)}

\* ---- methods left to the backend ----------------------------------------------

C18_Outcomes ==
    /\ sent.send \in {"none", "NotImplementedError"}
    /\ sent.send_and_wait \in {"none", "NotImplementedError"}

C18_Step ==
    /\ \A c \in Live : \A t \in 1..Len(tasks[c]) :
          tasks[c][t].pc = "commit" => tasks'[c][t].pc \in {"commit", "dead"}
    /\ Send => sent'.send = "NotImplementedError"
    /\ SendAndWait => sent'.send_and_wait = "NotImplementedError"

\* C18: with no backend overriding them, every call of Consumer._commit,
\* Producer.send and Producer.send_and_wait raises NotImplementedError to its
\* caller; for _commit the caller is the periodic commit task, which the
\* exception ends.
C18_BaseMethodsRaise == []C18_Outcomes /\ [][C18_Step]_vars

\* A commit task was ended by its _commit call, and both Producer methods
\* were called.
C18_Witness ==
    /\ \E c \in Live : \E t \in 1..Len(tasks[c]) : tasks[c][t].pc = "dead"
    /\ sent.send = "NotImplementedError"
    /\ sent.send_and_wait = "NotImplementedError"

\* ---- repeated register_timers --------------------------------------------------

C20_NoGuard == \A c \in Live : ENABLED RegisterTimers(c)

C20_Step ==
    \A c \in Live :
        /\ RegisterTimers(c) => tasks'[c] = Append(tasks[c], NewTask)
        /\ Len(tasks'[c]) >= Len(tasks[c])
        /\ \A t \in 1..Len(tasks[c]) :
              (LoopPass(c, t) /\ HeadReclaimed(c))
                  => /\ tasks'[c][t].pc = "commit"
                     /\ ncommits'[c] = Min(ncommits[c] + 1, MaxCommits)

\* C20: register_timers can be called again whatever tasks the Consumer
\* already has; each call adds one new task and leaves the earlier ones
\* running, no task ever goes away, and each task makes its own _commit call
\* in each of its loop passes that finds the head reclaimed.
C20_TimersAccumulate == []C20_NoGuard /\ [][C20_Step]_vars

\* Two tasks of one Consumer are inside their own _commit call at once.
C20_Witness ==
    \E c \in Live :
        /\ Len(tasks[c]) >= 2
        /\ tasks[c][1].pc = "commit"
        /\ tasks[c][2].pc = "commit"
        /\ ncommits[c] >= 2

====
